---- MODULE Spec2Model ----
(***************************************************************************)
(* Doc_Compare (app.py): extraction of paragraphs, comments and tables     *)
(* from two .docx files, the positional comparison of the two extracted    *)
(* models, and the rendering of the difference lists.                      *)
(*                                                                         *)
(* A Python str is a sequence of one-character strings, so that strip()    *)
(* and concatenation are computed and not assumed.  A (text, comments)     *)
(* tuple is the pair <<text, comments>>.  A diff string built by an        *)
(* f-string is the record of the values the f-string interpolates; the     *)
(* difflib.ndiff trace inside it is a function of the same two values and  *)
(* is not kept as a separate field.                                        *)
(***************************************************************************)
EXTENDS Integers, Sequences, FiniteSets

VARIABLES
    pc,             \* position in the script body, lines 156-183
    file1, file2,   \* the two uploaded documents, lines 153-154
    paragraphs1, paragraphs2,   \* lines 160-161
    tables1, tables2,           \* lines 164-165
    par_diff, table_diff,       \* lines 168-169
    screen          \* what streamlit has been asked to show, in call order

vars == <<pc, file1, file2, paragraphs1, paragraphs2, tables1, tables2,
          par_diff, table_diff, screen>>

(***************************************************************************)
(* Bounds of the checked inputs.  A size counts the structural items of    *)
(* BOTH inputs of a comparison together.                                   *)
(***************************************************************************)
MaxParSize == 4     \* paragraphs + comment texts of the two paragraph lists
MaxTabSize == 6     \* tables + rows + cells of the two table lists

EmptyStr == <<>>
Space    == " "
TextVals    == {EmptyStr, <<"a">>, <<"b">>}     \* paragraph and cell texts
CommentVals == {<<"c">>, <<"d">>}               \* comment texts

Max(a, b) == IF a >= b THEN a ELSE b

----------------------------------------------------------------------------
(* Diff records: the values interpolated by the f-strings of lines 114,    *)
(* 118, 142, 144 and 146.                                                  *)

ParagraphTextDiff(i, text1, text2) ==
    [kind |-> "ParagraphTextDiff", index |-> i, old |-> text1, new |-> text2]

ParagraphCommentDiff(i, comm1, comm2) ==
    [kind |-> "ParagraphCommentDiff", index |-> i, old |-> comm1, new |-> comm2]

TableCellDiff(t, r, c, val1, val2) ==
    [kind |-> "TableCellDiff", table |-> t, row |-> r, cell |-> c,
     old |-> val1, new |-> val2]

RowCountMismatch(t, r, n1, n2) ==
    [kind |-> "RowCountMismatch", table |-> t, row |-> r,
     oldCount |-> n1, newCount |-> n2]

TableRowCountMismatch(t, n1, n2) ==
    [kind |-> "TableRowCountMismatch", table |-> t,
     oldCount |-> n1, newCount |-> n2]

----------------------------------------------------------------------------
(* compare_paragraphs, lines 101-119.  Indices i are 0-based as in the     *)
(* source; TLA+ sequences are 1-based, hence the [i + 1].                  *)

\* paragraphs[i] if i < len(paragraphs) else ("", [])
ParagraphAt(paragraphs, i) ==
    IF i < Len(paragraphs) THEN paragraphs[i + 1] ELSE <<EmptyStr, <<>>>>

\* a slip: the loop stops at the shorter list, as zip() would
ParagraphCountShorter(paras1, paras2) ==
    IF Len(paras1) <= Len(paras2) THEN Len(paras1) ELSE Len(paras2)

\* range(max_len) of line 107-108
ParagraphCount(paras1, paras2) == Max(Len(paras1), Len(paras2))

\* body of the loop, lines 109-118: result after iteration i
ParagraphStep(paras1, paras2, i, result) ==
    LET text1 == ParagraphAt(paras1, i)[1]
        comm1 == ParagraphAt(paras1, i)[2]
        text2 == ParagraphAt(paras2, i)[1]
        comm2 == ParagraphAt(paras2, i)[2]
        r1 == IF text1 # text2
              THEN Append(result, ParagraphTextDiff(i + 1, text1, text2))
              ELSE result
    IN  IF comm1 # comm2
        THEN Append(r1, ParagraphCommentDiff(i + 1, comm1, comm2))
        ELSE r1

RECURSIVE ParagraphLoop(_, _, _, _)
ParagraphLoop(paras1, paras2, i, result) ==
    IF i >= ParagraphCount(paras1, paras2) THEN result
    ELSE ParagraphLoop(paras1, paras2, i + 1,
                       ParagraphStep(paras1, paras2, i, result))

compare_paragraphs(paras1, paras2) == ParagraphLoop(paras1, paras2, 0, <<>>)

----------------------------------------------------------------------------
(* compare_tables, lines 121-147.                                          *)

\* a slip: a missing table read as a table of one empty row
TableAtOneRow(tables, t) == IF t < Len(tables) THEN tables[t + 1] ELSE <<<<>>>>

\* tables[t] if t < len(tables) else []
TableAt(tables, t) == IF t < Len(tables) THEN tables[t + 1] ELSE <<>>

\* table[row_index] if row_index < len(table) else []
RowAt(table, r) == IF r < Len(table) THEN table[r + 1] ELSE <<>>

\* row[cell_index] if cell_index < len(row) else ""
CellAt(row, c) == IF c < Len(row) THEN row[c + 1] ELSE EmptyStr

\* a slip: the second value read one cell further
CellStepShifted(row1, row2, t, r, c, result) ==
    LET val1 == CellAt(row1, c)
        val2 == CellAt(row2, c + 1)
    IN  IF val1 # val2
        THEN Append(result, TableCellDiff(t + 1, r + 1, c + 1, val1, val2))
        ELSE result

\* lines 137-142: one iteration of the cell loop
CellStep(row1, row2, t, r, c, result) ==
    LET val1 == CellAt(row1, c)
        val2 == CellAt(row2, c)
    IN  IF val1 # val2
        THEN Append(result, TableCellDiff(t + 1, r + 1, c + 1, val1, val2))
        ELSE result

RECURSIVE CellLoop(_, _, _, _, _, _)
CellLoop(row1, row2, t, r, c, result) ==
    IF c >= Max(Len(row1), Len(row2)) THEN result
    ELSE CellLoop(row1, row2, t, r, c + 1, CellStep(row1, row2, t, r, c, result))

\* a slip: > for !=
RowCountCheckGreater(row1, row2, t, r, result) ==
    IF Len(row1) > Len(row2)
    THEN Append(result, RowCountMismatch(t + 1, r + 1, Len(row1), Len(row2)))
    ELSE result

\* a slip: the check made only when the cell loop found nothing
RowCountCheckIfQuiet(row1, row2, t, r, result) ==
    IF Len(row1) # Len(row2) /\
       \A k \in 1..Len(result) :
           ~(result[k].kind = "TableCellDiff" /\ result[k].table = t + 1
             /\ result[k].row = r + 1)
    THEN Append(result, RowCountMismatch(t + 1, r + 1, Len(row1), Len(row2)))
    ELSE result

\* lines 143-144: the check that follows the cell loop
RowCountCheck(row1, row2, t, r, result) ==
    IF Len(row1) # Len(row2)
    THEN Append(result, RowCountMismatch(t + 1, r + 1, Len(row1), Len(row2)))
    ELSE result

\* a slip: the cell-count check made before the cell loop
RowStepCountFirst(table1, table2, t, r, result) ==
    LET row1 == RowAt(table1, r)
        row2 == RowAt(table2, r)
    IN  CellLoop(row1, row2, t, r, 0, RowCountCheck(row1, row2, t, r, result))

\* lines 133-144: one iteration of the row loop
RowStep(table1, table2, t, r, result) ==
    LET row1 == RowAt(table1, r)
        row2 == RowAt(table2, r)
    IN  RowCountCheck(row1, row2, t, r, CellLoop(row1, row2, t, r, 0, result))

RECURSIVE RowLoop(_, _, _, _, _)
RowLoop(table1, table2, t, r, result) ==
    IF r >= Max(Len(table1), Len(table2)) THEN result
    ELSE RowLoop(table1, table2, t, r + 1, RowStep(table1, table2, t, r, result))

\* a slip: len(table1) compared with itself
TableRowCountCheckTypo(table1, table2, t, result) ==
    IF Len(table1) # Len(table1)
    THEN Append(result, TableRowCountMismatch(t + 1, Len(table1), Len(table2)))
    ELSE result

\* lines 145-146: the check that follows the row loop
TableRowCountCheck(table1, table2, t, result) ==
    IF Len(table1) # Len(table2)
    THEN Append(result, TableRowCountMismatch(t + 1, Len(table1), Len(table2)))
    ELSE result

\* lines 129-146: one iteration of the table loop
TableStep(tabs1, tabs2, t, result) ==
    LET table1 == TableAt(tabs1, t)
        table2 == TableAt(tabs2, t)
    IN  TableRowCountCheck(table1, table2, t,
                           RowLoop(table1, table2, t, 0, result))

RECURSIVE TableLoop(_, _, _, _)
TableLoop(tabs1, tabs2, t, result) ==
    IF t >= Max(Len(tabs1), Len(tabs2)) THEN result
    ELSE TableLoop(tabs1, tabs2, t + 1, TableStep(tabs1, tabs2, t, result))

compare_tables(tabs1, tabs2) == TableLoop(tabs1, tabs2, 0, <<>>)

----------------------------------------------------------------------------
(* Streamlit calls, in the order they are made.                            *)

Widget(w, body) == [widget |-> w, body |-> body]

RECURSIVE CodeBlocks(_)
\* for diff in diffs: st.code(diff, language="diff")
CodeBlocks(diffs) ==
    IF diffs = <<>> THEN <<>>
    ELSE <<Widget("code", Head(diffs))>> \o CodeBlocks(Tail(diffs))

\* lines 171-176 and 178-183
RenderSection(title, diffs, none) ==
    <<Widget("header", title)>> \o
    (IF Len(diffs) > 0 THEN CodeBlocks(diffs) ELSE <<Widget("write", none)>>)

----------------------------------------------------------------------------
(* The script body from line 168 on.                                       *)

\* line 168
CompareParagraphs ==
    /\ pc = "compare_paragraphs"
    /\ par_diff' = compare_paragraphs(paragraphs1, paragraphs2)
    /\ pc' = "compare_tables"
    /\ UNCHANGED <<file1, file2, paragraphs1, paragraphs2, tables1, tables2,
                   table_diff, screen>>

\* line 169
CompareTables ==
    /\ pc = "compare_tables"
    /\ table_diff' = compare_tables(tables1, tables2)
    /\ pc' = "render_paragraphs"
    /\ UNCHANGED <<file1, file2, paragraphs1, paragraphs2, tables1, tables2,
                   par_diff, screen>>

\* lines 171-176
RenderParagraphs ==
    /\ pc = "render_paragraphs"
    /\ screen' = screen \o RenderSection("Paragraph Differences", par_diff,
                               "No differences in paragraphs detected.")
    /\ pc' = "render_tables"
    /\ UNCHANGED <<file1, file2, paragraphs1, paragraphs2, tables1, tables2,
                   par_diff, table_diff>>

\* lines 178-183
RenderTables ==
    /\ pc = "render_tables"
    /\ screen' = screen \o RenderSection("Table Differences", table_diff,
                               "No differences in tables detected.")
    /\ pc' = "done"
    /\ UNCHANGED <<file1, file2, paragraphs1, paragraphs2, tables1, tables2,
                   par_diff, table_diff>>

----------------------------------------------------------------------------
(* Raw documents.  What python-docx and ElementTree hand to the script:     *)
(*   paragraph: text  = para.text,                                          *)
(*              sdts  = the w:sdt elements of para._p.iter(w:sdt), each     *)
(*                      with has_content (find(w:sdtContent) is not None)   *)
(*                      and itertext ("".join(sdt_content.itertext())),     *)
(*              fails = get_text_from_content_controls raises on it,        *)
(*              marks = the w:id of each commentRangeStart of para._p.iter()*)
(*   cell:      text = cell.text, sdts and fails as for a paragraph         *)
(*   comments:  status = "absent" (no word/comments.xml), "malformed"       *)
(*              (ET.fromstring raises) or "ok"; entries = the w:comment     *)
(*              elements, each with id and itertext                         *)

Chars == {Space, "a"}
Ids   == {"1", "2"}           \* w:id values

IsSpace(c) == c = Space

RECURSIVE LStrip(_)
LStrip(s) == IF s # <<>> /\ IsSpace(Head(s)) THEN LStrip(Tail(s)) ELSE s

RECURSIVE RStrip(_)
RStrip(s) ==
    IF s # <<>> /\ IsSpace(s[Len(s)]) THEN RStrip(SubSeq(s, 1, Len(s) - 1)) ELSE s

\* str.strip()
Strip(s) == RStrip(LStrip(s))

RECURSIVE Join(_)
\* " ".join(texts)
Join(texts) ==
    IF texts = <<>> THEN EmptyStr
    ELSE IF Len(texts) = 1 THEN Head(texts)
    ELSE Head(texts) \o <<Space>> \o Join(Tail(texts))

\* lines 17-21: what one w:sdt adds to texts
SdtText(sdt, texts) ==
    IF sdt.has_content
    THEN LET content_text == Strip(sdt.itertext)
         IN  IF content_text # EmptyStr THEN Append(texts, content_text) ELSE texts
    ELSE texts

RECURSIVE SdtLoop(_, _)
SdtLoop(sdts, texts) ==
    IF sdts = <<>> THEN texts ELSE SdtLoop(Tail(sdts), SdtText(Head(sdts), texts))

\* lines 9-22, when the call returns
get_text_from_content_controls(element) == Join(SdtLoop(element.sdts, <<>>))

\* full_text += ' ' + sdt_text, guarded by "if sdt_text" (lines 50-51, 92-93)
AppendSdtText(text, sdt_text) ==
    IF sdt_text # EmptyStr THEN text \o <<Space>> \o sdt_text ELSE text

\* lines 43-54
get_full_paragraph_text(para) ==
    LET full_text == para.text
    IN  IF para.fails
        THEN Strip(full_text)       \* except branch: full_text is untouched
        ELSE Strip(AppendSdtText(full_text, get_text_from_content_controls(para)))

\* line 53
ParagraphErrors(para) ==
    IF para.fails
    THEN <<Widget("error", "Error extracting content control text")>>
    ELSE <<>>

\* a slip: the except branch gives up the cell's text
CellTextLost(cell) ==
    LET cell_text == Strip(cell.text)
    IN  IF cell.fails
        THEN EmptyStr
        ELSE Strip(AppendSdtText(cell_text, get_text_from_content_controls(cell)))

\* lines 89-96
CellText(cell) ==
    LET cell_text == Strip(cell.text)
    IN  IF cell.fails
        THEN Strip(cell_text)
        ELSE Strip(AppendSdtText(cell_text, get_text_from_content_controls(cell)))

\* line 95
CellErrors(cell) ==
    IF cell.fails
    THEN <<Widget("error", "Error extracting content control from table cell")>>
    ELSE <<>>

----------------------------------------------------------------------------
(* extract_comments_from_docx, lines 24-41.  A dict is a function.         *)

EmptyMap == [id \in {} |-> EmptyStr]

\* comments[comment_id] = comment_text
Put(comments, id, text) ==
    [k \in DOMAIN comments \cup {id} |-> IF k = id THEN text ELSE comments[k]]

RECURSIVE CommentLoop(_, _)
\* lines 35-38
CommentLoop(entries, comments) ==
    IF entries = <<>> THEN comments
    ELSE CommentLoop(Tail(entries),
                     Put(comments, Head(entries).id, Strip(Head(entries).itertext)))

\* lines 31-33: docx_zip.read raises KeyError, ET.fromstring raises ParseError
CommentPartRaises(file) == file.comments.status # "ok"

\* a slip: the comments read before the parser gave up are kept
extract_comments_partial(file) ==
    IF file.comments.status = "absent" THEN EmptyMap
    ELSE CommentLoop(file.comments.entries, EmptyMap)

extract_comments_from_docx(file) ==
    LET comments == EmptyMap        \* line 29, before the try
    IN  IF CommentPartRaises(file) THEN comments
        ELSE CommentLoop(file.comments.entries, comments)

\* line 40
CommentWarnings(file) ==
    IF CommentPartRaises(file)
    THEN <<Widget("warning", "No comments found or error extracting comments")>>
    ELSE <<>>

----------------------------------------------------------------------------
(* extract_docx_paragraphs_and_comments, lines 56-74.                      *)

\* lines 70-72: what one commentRangeStart adds to comment_texts
MarkText(comment_id, comments, comment_texts) ==
    IF comment_id \in DOMAIN comments
    THEN Append(comment_texts, comments[comment_id])
    ELSE comment_texts

RECURSIVE MarkLoop(_, _, _)
\* lines 67-72
MarkLoop(marks, comments, comment_texts) ==
    IF marks = <<>> THEN comment_texts
    ELSE MarkLoop(Tail(marks), comments,
                  MarkText(Head(marks), comments, comment_texts))

\* a slip: the "if full_text" filter left out
ExtractParagraphStepKeepAll(para, comments, paragraphs_with_comments) ==
    Append(paragraphs_with_comments,
           <<get_full_paragraph_text(para), MarkLoop(para.marks, comments, <<>>)>>)

\* lines 65-73: one iteration of the paragraph loop
ExtractParagraphStep(para, comments, paragraphs_with_comments) ==
    LET full_text == get_full_paragraph_text(para)
    IN  IF full_text # EmptyStr
        THEN Append(paragraphs_with_comments,
                    <<full_text, MarkLoop(para.marks, comments, <<>>)>>)
        ELSE paragraphs_with_comments

RECURSIVE ExtractParagraphLoop(_, _, _)
ExtractParagraphLoop(paras, comments, paragraphs_with_comments) ==
    IF paras = <<>> THEN paragraphs_with_comments
    ELSE ExtractParagraphLoop(Tail(paras), comments,
             ExtractParagraphStep(Head(paras), comments, paragraphs_with_comments))

extract_docx_paragraphs_and_comments(file) ==
    ExtractParagraphLoop(file.paragraphs, extract_comments_from_docx(file), <<>>)

RECURSIVE ParagraphLoopErrors(_)
ParagraphLoopErrors(paras) ==
    IF paras = <<>> THEN <<>>
    ELSE ParagraphErrors(Head(paras)) \o ParagraphLoopErrors(Tail(paras))

\* the st.warning and st.error calls of one call of lines 56-74, in order
ParagraphExtractionMessages(file) ==
    CommentWarnings(file) \o ParagraphLoopErrors(file.paragraphs)

----------------------------------------------------------------------------
(* extract_docx_tables, lines 76-99.                                       *)

RECURSIVE ExtractRow(_)
\* lines 87-96
ExtractRow(cells) ==
    IF cells = <<>> THEN <<>>
    ELSE <<CellText(Head(cells))>> \o ExtractRow(Tail(cells))

RECURSIVE ExtractTable(_)
\* lines 85-97
ExtractTable(rows) ==
    IF rows = <<>> THEN <<>>
    ELSE <<ExtractRow(Head(rows))>> \o ExtractTable(Tail(rows))

RECURSIVE ExtractTableList(_)
\* lines 83-98
ExtractTableList(tables) ==
    IF tables = <<>> THEN <<>>
    ELSE <<ExtractTable(Head(tables))>> \o ExtractTableList(Tail(tables))

extract_docx_tables(file) == ExtractTableList(file.tables)

RECURSIVE Flatten(_)
Flatten(seqs) == IF seqs = <<>> THEN <<>> ELSE Head(seqs) \o Flatten(Tail(seqs))

RECURSIVE CellLoopErrors(_)
CellLoopErrors(cells) ==
    IF cells = <<>> THEN <<>>
    ELSE CellErrors(Head(cells)) \o CellLoopErrors(Tail(cells))

\* the st.error calls of one call of lines 76-99, in order (row-major)
TableExtractionMessages(file) == CellLoopErrors(Flatten(Flatten(file.tables)))

----------------------------------------------------------------------------
(* The script body, lines 150-165.                                         *)

\* lines 150-151
ScreenAtStart ==
    <<Widget("title", "Word Document Comparison Tool"),
      Widget("write", "Upload two Word documents to compare texts, tables, and source comments.")>>

\* lines 157 and 160
ExtractParagraphs1 ==
    /\ pc = "extract_paragraphs1"
    /\ paragraphs1' = extract_docx_paragraphs_and_comments(file1)
    /\ screen' = screen \o <<Widget("write", "Processing documents...")>>
                        \o ParagraphExtractionMessages(file1)
    /\ pc' = "extract_paragraphs2"
    /\ UNCHANGED <<file1, file2, paragraphs2, tables1, tables2, par_diff, table_diff>>

\* line 161
ExtractParagraphs2 ==
    /\ pc = "extract_paragraphs2"
    /\ paragraphs2' = extract_docx_paragraphs_and_comments(file2)
    /\ screen' = screen \o ParagraphExtractionMessages(file2)
    /\ pc' = "extract_tables1"
    /\ UNCHANGED <<file1, file2, paragraphs1, tables1, tables2, par_diff, table_diff>>

\* line 164
ExtractTables1 ==
    /\ pc = "extract_tables1"
    /\ tables1' = extract_docx_tables(file1)
    /\ screen' = screen \o TableExtractionMessages(file1)
    /\ pc' = "extract_tables2"
    /\ UNCHANGED <<file1, file2, paragraphs1, paragraphs2, tables2, par_diff, table_diff>>

\* line 165
ExtractTables2 ==
    /\ pc = "extract_tables2"
    /\ tables2' = extract_docx_tables(file2)
    /\ screen' = screen \o TableExtractionMessages(file2)
    /\ pc' = "compare_paragraphs"
    /\ UNCHANGED <<file1, file2, paragraphs1, paragraphs2, tables1, par_diff, table_diff>>

----------------------------------------------------------------------------
(* The checked inputs.  items[k] is the set of items of size k; a list of  *)
(* size m is a list of items whose sizes add up to m.                      *)

RECURSIVE SeqsOfSize(_, _)
SeqsOfSize(items, m) ==
    IF m = 0 THEN {<<>>}
    ELSE UNION {{<<x>> \o s : x \in items[k], s \in SeqsOfSize(items, m - k)} :
                k \in 1..m}

SeqsUpTo(items, n) == UNION {SeqsOfSize(items, m) : m \in 0..n}

Strs(n) == [1..n -> Chars]

\* extracted models: a paragraph counts 1 + its comments, a row 1 + its
\* cells, a table 1 + its rows
ParagraphModels(n) ==
    [k \in 1..n |-> {<<t, c>> : t \in TextVals, c \in [1..(k - 1) -> CommentVals]}]
RowModels(n) == [k \in 1..n |-> [1..(k - 1) -> TextVals]]
TableModels(n) == [k \in 1..n |-> SeqsOfSize(RowModels(n), k - 1)]

RECURSIVE ParSize(_)
ParSize(paras) ==
    IF paras = <<>> THEN 0 ELSE 1 + Len(Head(paras)[2]) + ParSize(Tail(paras))

RECURSIVE TabSize(_)
TabSize(tabs) ==
    IF tabs = <<>> THEN 0
    ELSE 1 + Len(Head(tabs)) + Len(Flatten(Head(tabs))) + TabSize(Tail(tabs))

\* raw documents: a w:sdt counts 1 + its characters, a paragraph or cell
\* 1 + its characters + its w:sdt + 1 if the content-control scan raises
SdtItems(n) ==
    [k \in 1..n |->
        {[has_content |-> TRUE, itertext |-> s] : s \in Strs(k - 1)} \cup
        (IF k = 1 THEN {[has_content |-> FALSE, itertext |-> EmptyStr]} ELSE {})]

Cost(f) == IF f THEN 1 ELSE 0

CellItems(n) ==
    [k \in 1..n |->
        UNION {UNION {{[text |-> s, sdts |-> d, fails |-> f] :
                         s \in Strs(j),
                         d \in SeqsOfSize(SdtItems(n), k - 1 - j - Cost(f))} :
                      j \in 0..(k - 1 - Cost(f))} :
               f \in BOOLEAN}]

WithMarks(cell, marks) ==
    [text |-> cell.text, sdts |-> cell.sdts, fails |-> cell.fails, marks |-> marks]

ParagraphItems(n) == [k \in 1..n |-> {WithMarks(c, <<>>) : c \in CellItems(n)[k]}]

\* paragraphs with comment marks: 1 + the marks
MarkedItems(n) ==
    [k \in 1..n |->
        {[text |-> t, sdts |-> <<>>, fails |-> FALSE, marks |-> m] :
            t \in {<<"a">>}, m \in [1..(k - 1) -> Ids]}]

RawComments == {<<"c">>, <<"d", Space>>}
EntryItems(n) ==
    [k \in 1..n |->
        IF k = 1 THEN {[id |-> i, itertext |-> s] : i \in Ids, s \in RawComments}
        ELSE {}]

NoComments == [status |-> "absent", entries |-> <<>>]
CommentParts(n) ==
    {NoComments} \cup
    {[status |-> st, entries |-> e] :
        st \in {"ok", "malformed"}, e \in SeqsUpTo(EntryItems(n), n)}

RawRowItems(n)   == [k \in 1..n |-> SeqsOfSize(CellItems(n), k - 1)]
RawTableItems(n) == [k \in 1..n |-> SeqsOfSize(RawRowItems(n), k - 1)]

MaxRawParSize     == 5  \* paragraphs + characters + w:sdt of a document
MaxRawTabSize     == 6  \* tables + rows + cells + characters + w:sdt
MaxRawCommentSize == 5  \* paragraphs + marks + w:comment of a document

EmptyFile == [paragraphs |-> <<>>, tables |-> <<>>, comments |-> NoComments]

ParagraphFiles ==
    {[paragraphs |-> p, tables |-> <<>>, comments |-> NoComments] :
        p \in SeqsUpTo(ParagraphItems(MaxRawParSize), MaxRawParSize)}

TableFiles ==
    {[paragraphs |-> <<>>, tables |-> t, comments |-> NoComments] :
        t \in SeqsUpTo(RawTableItems(MaxRawTabSize), MaxRawTabSize)}

CommentFiles ==
    UNION {{[paragraphs |-> p, tables |-> <<>>, comments |-> c] :
              p \in SeqsOfSize(MarkedItems(MaxRawCommentSize), m),
              c \in CommentParts(MaxRawCommentSize - m)} :
           m \in 0..MaxRawCommentSize}

Files == ParagraphFiles \cup TableFiles \cup CommentFiles

\* paragraph lists and table lists that keep the other comparison company
SomeParagraphs ==
    {<<<<>>, <<>>>>,
     <<<< <<<<"a">>, <<<<"c">>>>>>, <<<<"b">>, <<>>>> >>, <<>>>>,
     <<<< <<<<"a">>, <<<<"c">>>>>> >>, << <<<<"a">>, <<<<"c">>>>>> >>>>}
SomeTables ==
    {<<<<>>, <<>>>>,
     <<<< <<<<<<"a">>>>>> >>, <<>>>>,
     <<<< <<<<<<"a">>>>>> >>, << <<<<<<"a">>>>>> >>>>}

----------------------------------------------------------------------------
(* Spec: the script on two uploaded documents.                             *)

Init ==
    /\ pc = "extract_paragraphs1"
    /\ file1 \in Files
    /\ file2 \in {EmptyFile, file1}
    /\ paragraphs1 = <<>> /\ paragraphs2 = <<>>
    /\ tables1 = <<>> /\ tables2 = <<>>
    /\ par_diff = <<>> /\ table_diff = <<>>
    /\ screen = ScreenAtStart

Next ==
    \/ ExtractParagraphs1
    \/ ExtractParagraphs2
    \/ ExtractTables1
    \/ ExtractTables2
    \/ CompareParagraphs
    \/ CompareTables
    \/ RenderParagraphs
    \/ RenderTables

Spec == Init /\ [][Next]_vars

(* SpecDiff: compare_paragraphs and compare_tables on any two lists, as    *)
(* called at lines 168-169, and the rendering of what they return.         *)

InitDiff ==
    /\ pc = "compare_paragraphs"
    /\ file1 = EmptyFile /\ file2 = EmptyFile
    /\ \/ /\ paragraphs1 \in SeqsUpTo(ParagraphModels(MaxParSize), MaxParSize)
          /\ paragraphs2 \in SeqsUpTo(ParagraphModels(MaxParSize),
                                      MaxParSize - ParSize(paragraphs1))
          /\ \E pair \in SomeTables : tables1 = pair[1] /\ tables2 = pair[2]
       \/ /\ tables1 \in SeqsUpTo(TableModels(MaxTabSize), MaxTabSize)
          /\ tables2 \in SeqsUpTo(TableModels(MaxTabSize),
                                  MaxTabSize - TabSize(tables1))
          /\ \E pair \in SomeParagraphs :
                paragraphs1 = pair[1] /\ paragraphs2 = pair[2]
    /\ par_diff = <<>> /\ table_diff = <<>>
    /\ screen = ScreenAtStart \o <<Widget("write", "Processing documents...")>>

NextDiff ==
    \/ CompareParagraphs
    \/ CompareTables
    \/ RenderParagraphs
    \/ RenderTables

SpecDiff == InitDiff /\ [][NextDiff]_vars

----------------------------------------------------------------------------
(* Properties of the comparison, checked under SpecDiff.                   *)

Compared == pc = "done"

IsCode(w) == w.widget = "code"
Rendered == SelectSeq(screen, IsCode)

\* the claims' reading of a missing paragraph, table, row or cell
TextOf(paras, i)  == IF i < Len(paras) THEN paras[i + 1][1] ELSE EmptyStr
TableOf(tabs, t)  == IF t < Len(tabs) THEN tabs[t + 1] ELSE <<>>
RowOf(tabs, t, r) ==
    IF r < Len(TableOf(tabs, t)) THEN TableOf(tabs, t)[r + 1] ELSE <<>>
CellOf(row, c)    == IF c < Len(row) THEN row[c + 1] ELSE EmptyStr

MaxParagraphs == Max(Len(paragraphs1), Len(paragraphs2))
MaxTables     == Max(Len(tables1), Len(tables2))
MaxRows(t)    == Max(Len(TableOf(tables1, t)), Len(TableOf(tables2, t)))

\* C1: a model compared with itself gives no record: compare_paragraphs(M, M)
\* and compare_tables(M, M) are empty, for the two lists given to the
\* comparison when they are equal and for each of them taken twice.
Idempotence ==
    Compared =>
        /\ paragraphs1 = paragraphs2 => par_diff = <<>>
        /\ tables1 = tables2 => table_diff = <<>>
        /\ compare_paragraphs(paragraphs1, paragraphs1) = <<>>
        /\ compare_paragraphs(paragraphs2, paragraphs2) = <<>>
        /\ compare_tables(tables1, tables1) = <<>>
        /\ compare_tables(tables2, tables2) = <<>>

IdempotenceWitness ==
    /\ Compared
    /\ paragraphs1 = paragraphs2 /\ paragraphs1 # <<>>
    /\ tables1 = tables2 /\ tables1 # <<>>
    /\ par_diff = <<>> /\ table_diff = <<>>

Swap(r) ==
    IF r.kind \in {"RowCountMismatch", "TableRowCountMismatch"}
    THEN [r EXCEPT !.oldCount = r.newCount, !.newCount = r.oldCount]
    ELSE [r EXCEPT !.old = r.new, !.new = r.old]

Swapped(diffs, back) ==
    /\ Len(back) = Len(diffs)
    /\ \A k \in 1..Len(diffs) :
          back[k].kind = diffs[k].kind /\ back[k] = Swap(diffs[k])

\* C2: comparing in the other direction gives the same records at the same
\* places in the same order, with old and new (values or counts) exchanged.
Symmetry ==
    Compared =>
        /\ Swapped(par_diff, compare_paragraphs(paragraphs2, paragraphs1))
        /\ Swapped(table_diff, compare_tables(tables2, tables1))

SymmetryWitness ==
    /\ Compared
    /\ \E k \in 1..Len(par_diff) : par_diff[k].kind = "ParagraphCommentDiff"
    /\ \E k \in 1..Len(table_diff) : table_diff[k].kind = "TableCellDiff"
    /\ \E k \in 1..Len(table_diff) :
          table_diff[k].kind = "RowCountMismatch"
          /\ table_diff[k].oldCount < table_diff[k].newCount

TextRecordsAt(i) ==
    {k \in 1..Len(par_diff) :
        par_diff[k].kind = "ParagraphTextDiff" /\ par_diff[k].index = i + 1}

IsProperPrefix(paras1, paras2) ==
    /\ Len(paras1) < Len(paras2)
    /\ \A i \in 1..Len(paras1) : paras1[i] = paras2[i]

HelloWorld == <<"H","e","l","l","o"," ","w","o","r","l","d">>
HelloThere == <<"H","e","l","l","o"," ","t","h","e","r","e">>
Same       == <<"S","a","m","e">>

\* C3: for every index i below the longer length there is exactly one text
\* record, numbered i+1 and carrying both texts, if and only if the two texts
\* at i differ, a missing paragraph reading as the empty text; there is no
\* text record at any other index.  When list 1 is a proper prefix of list 2,
\* the text records are those of the extra paragraphs with non-empty text,
\* each with the empty old value.
PositionalTextDiff ==
    Compared =>
        /\ \A k \in 1..Len(par_diff) :
              par_diff[k].kind = "ParagraphTextDiff"
                  => par_diff[k].index \in 1..MaxParagraphs
        /\ \A i \in 0..(MaxParagraphs - 1) :
              IF TextOf(paragraphs1, i) # TextOf(paragraphs2, i)
              THEN \E k \in 1..Len(par_diff) :
                      /\ TextRecordsAt(i) = {k}
                      /\ par_diff[k].old = TextOf(paragraphs1, i)
                      /\ par_diff[k].new = TextOf(paragraphs2, i)
              ELSE TextRecordsAt(i) = {}
        /\ IsProperPrefix(paragraphs1, paragraphs2) =>
              /\ \A i \in 0..(Len(paragraphs2) - 1) :
                    Cardinality(TextRecordsAt(i)) =
                        IF i >= Len(paragraphs1) /\ paragraphs2[i + 1][1] # EmptyStr
                        THEN 1 ELSE 0
              /\ \A k \in 1..Len(par_diff) :
                    par_diff[k].kind = "ParagraphTextDiff"
                        => par_diff[k].old = EmptyStr
        /\ compare_paragraphs(<<<<HelloWorld, <<>>>>, <<Same, <<>>>>>>,
                              <<<<HelloThere, <<>>>>, <<Same, <<>>>>>>)
              = <<ParagraphTextDiff(1, HelloWorld, HelloThere)>>

PositionalTextDiffWitness ==
    /\ Compared
    /\ IsProperPrefix(paragraphs1, paragraphs2)
    /\ Len(paragraphs1) = 1 /\ Len(paragraphs2) = 3
    /\ paragraphs2[2][1] = EmptyStr /\ paragraphs2[3][1] # EmptyStr
    /\ Len(par_diff) = 1 /\ par_diff[1].index = 3

CellRecordsAt(t, r, c) ==
    {k \in 1..Len(table_diff) :
        /\ table_diff[k].kind = "TableCellDiff"
        /\ table_diff[k].table = t + 1 /\ table_diff[k].row = r + 1
        /\ table_diff[k].cell = c + 1}

CellRecordsOfRow(t, r) ==
    {k \in 1..Len(table_diff) :
        /\ table_diff[k].kind = "TableCellDiff"
        /\ table_diff[k].table = t + 1 /\ table_diff[k].row = r + 1}

RowCountRecordsAt(t, r) ==
    {k \in 1..Len(table_diff) :
        /\ table_diff[k].kind = "RowCountMismatch"
        /\ table_diff[k].table = t + 1 /\ table_diff[k].row = r + 1}

\* C4: for every compared pair of rows, the cell records are exactly one for
\* each cell index below the longer row at which the two values differ (a
\* missing cell reading as the empty string), and there is exactly one
\* RowCountMismatch with both raw cell counts if and only if the counts
\* differ, whether or not the row has a cell record.
RowComparison ==
    Compared =>
        /\ \A t \in 0..(MaxTables - 1) : \A r \in 0..(MaxRows(t) - 1) :
              LET row1 == RowOf(tables1, t, r)
                  row2 == RowOf(tables2, t, r)
                  n    == Max(Len(row1), Len(row2))
              IN  /\ \A c \in 0..(n - 1) :
                        IF CellOf(row1, c) # CellOf(row2, c)
                        THEN \E k \in 1..Len(table_diff) :
                                /\ CellRecordsAt(t, r, c) = {k}
                                /\ table_diff[k].old = CellOf(row1, c)
                                /\ table_diff[k].new = CellOf(row2, c)
                        ELSE CellRecordsAt(t, r, c) = {}
                  /\ \A k \in CellRecordsOfRow(t, r) : table_diff[k].cell \in 1..n
                  /\ IF Len(row1) # Len(row2)
                     THEN \E k \in 1..Len(table_diff) :
                             /\ RowCountRecordsAt(t, r) = {k}
                             /\ table_diff[k].oldCount = Len(row1)
                             /\ table_diff[k].newCount = Len(row2)
                     ELSE RowCountRecordsAt(t, r) = {}
        /\ \A k \in 1..Len(table_diff) :
              table_diff[k].kind \in {"TableCellDiff", "RowCountMismatch"} =>
                  /\ table_diff[k].table \in 1..MaxTables
                  /\ table_diff[k].row \in 1..MaxRows(table_diff[k].table - 1)
        /\ compare_tables(<< << <<<<"a">>, <<"b">>, <<"c">>>> >> >>,
                          << << <<<<"a">>, <<"x">>>> >> >>)
              = <<TableCellDiff(1, 1, 2, <<"b">>, <<"x">>),
                  TableCellDiff(1, 1, 3, <<"c">>, EmptyStr),
                  RowCountMismatch(1, 1, 3, 2)>>

\* a row whose extra cell is empty: a RowCountMismatch and no cell record,
\* next to a row that has cell records and a RowCountMismatch
RowComparisonWitness ==
    /\ Compared
    /\ \E k \in 1..Len(table_diff) :
          /\ table_diff[k].kind = "RowCountMismatch"
          /\ CellRecordsOfRow(table_diff[k].table - 1, table_diff[k].row - 1) = {}
    /\ \E k \in 1..Len(table_diff) :
          /\ table_diff[k].kind = "RowCountMismatch"
          /\ CellRecordsOfRow(table_diff[k].table - 1, table_diff[k].row - 1) # {}

MissingTableScenario ==
    /\ Compared
    /\ Len(tables1) = 1 /\ Len(tables1[1]) = 1 /\ Len(tables1[1][1]) = 2
    /\ tables1[1][1][1] # EmptyStr /\ tables1[1][1][2] # EmptyStr
    /\ tables2 = <<>>

MissingTableRecords(n1, n2) ==
    <<TableCellDiff(1, 1, 1, tables1[1][1][1], EmptyStr),
      TableCellDiff(1, 1, 2, tables1[1][1][2], EmptyStr),
      RowCountMismatch(1, 1, n1, n2),
      TableRowCountMismatch(1, 1, 0)>>

\* C5 as stated: one table with one row [x, y] against no table gives two
\* cell records, a RowCountMismatch reporting 0 vs 2 cells and a
\* TableRowCountMismatch reporting 1 vs 0 rows.
MissingTableAsStated ==
    MissingTableScenario => table_diff = MissingTableRecords(0, 2)

\* C5 amended: the same four records, the RowCountMismatch reporting 2 vs 0
\* cells: both mismatch records give document 1's count first.
MissingTableAmended ==
    MissingTableScenario => table_diff = MissingTableRecords(2, 0)

MissingTableWitness == MissingTableScenario /\ Len(table_diff) = 4

\* a precedes b in table, row, cell order, a row's count record after its
\* cell records and a table's count record after its rows' records
TableBefore(a, b) ==
    \/ a.table < b.table
    \/ /\ a.table = b.table
       /\ a.kind # "TableRowCountMismatch"
       /\ \/ b.kind = "TableRowCountMismatch"
          \/ a.row < b.row
          \/ /\ a.row = b.row
             /\ a.kind = "TableCellDiff"
             /\ (b.kind = "RowCountMismatch" \/ a.cell < b.cell)

ParagraphBefore(a, b) ==
    \/ a.index < b.index
    \/ /\ a.index = b.index
       /\ a.kind = "ParagraphTextDiff"
       /\ b.kind = "ParagraphCommentDiff"

RenderedAre(diffs) ==
    /\ Len(Rendered) = Len(diffs)
    /\ \A k \in 1..Len(diffs) :
          Rendered[k].body.kind = diffs[k].kind /\ Rendered[k].body = diffs[k]

\* C6: the table records are in table, row, cell order with each count record
\* right after what it closes; the paragraph records are in index order, text
\* before comment; the code blocks on the screen are the paragraph records
\* followed by the table records, each list in the order returned.
EmissionOrder ==
    /\ pc \in {"render_paragraphs", "render_tables", "done"} =>
          /\ \A j, k \in 1..Len(table_diff) :
                j < k => TableBefore(table_diff[j], table_diff[k])
          /\ \A j, k \in 1..Len(par_diff) :
                j < k => ParagraphBefore(par_diff[j], par_diff[k])
    /\ pc = "render_tables" => RenderedAre(par_diff)
    /\ pc = "done" => RenderedAre(par_diff \o table_diff)

EmissionOrderWitness ==
    /\ pc = "done"
    /\ \E j, k \in 1..Len(par_diff) :
          /\ j < k
          /\ par_diff[j].kind = "ParagraphTextDiff"
          /\ par_diff[k].kind = "ParagraphCommentDiff"
    /\ \E i, j, k \in 1..Len(table_diff) :
          /\ i < j /\ j < k
          /\ table_diff[i].kind = "TableCellDiff"
          /\ table_diff[j].kind = "RowCountMismatch"
          /\ table_diff[k].kind = "TableRowCountMismatch"
          /\ k < Len(table_diff)

\* C10: compare_tables returns the empty list exactly when, at every table
\* index below the longer length, the two tables are equal as lists of rows
\* of cell strings, a missing table reading as a table without rows.
NoSilentTableDifference ==
    Compared =>
        (table_diff = <<>>
            <=> \A t \in 0..(MaxTables - 1) :
                    TableOf(tables1, t) = TableOf(tables2, t))

\* the two lists differ only by a table without rows at the end of one
NoSilentTableDifferenceWitness ==
    /\ Compared
    /\ tables1 # tables2
    /\ table_diff = <<>>

----------------------------------------------------------------------------
(* Properties of the extraction, checked under Spec.                       *)

Paragraphs1Extracted == pc # "extract_paragraphs1"
Tables1Extracted ==
    pc \notin {"extract_paragraphs1", "extract_paragraphs2", "extract_tables1"}
AllExtracted ==
    pc \in {"compare_paragraphs", "compare_tables", "render_paragraphs",
            "render_tables", "done"}

AllSpaces(s) == \A i \in 1..Len(s) : IsSpace(s[i])

\* no visible text: blank plain text, and no content control that adds text
Blank(element) ==
    /\ AllSpaces(element.text)
    /\ \/ element.fails
       \/ \A k \in 1..Len(element.sdts) :
             ~element.sdts[k].has_content \/ AllSpaces(element.sdts[k].itertext)

Kept(file) == {i \in 1..Len(file.paragraphs) : ~Blank(file.paragraphs[i])}

\* the position of i \in S among the members of S
Rank(S, i) == Cardinality({j \in S : j <= i})

\* C7: the extracted list is the subsequence, in document order, of the
\* paragraphs whose full text is not empty: its length is the number of
\* such paragraphs, its entries are their full texts in order, every text is
\* non-empty without leading or trailing whitespace, and the paragraph
\* numbers of the text records are positions in this list.
EmptyParagraphFiltering ==
    /\ Paragraphs1Extracted =>
          /\ Len(paragraphs1) = Cardinality(Kept(file1))
          /\ \A i \in 1..Len(file1.paragraphs) :
                IF i \in Kept(file1)
                THEN /\ get_full_paragraph_text(file1.paragraphs[i]) # EmptyStr
                     /\ paragraphs1[Rank(Kept(file1), i)][1]
                            = get_full_paragraph_text(file1.paragraphs[i])
                ELSE get_full_paragraph_text(file1.paragraphs[i]) = EmptyStr
          /\ \A j \in 1..Len(paragraphs1) :
                LET text == paragraphs1[j][1]
                IN  /\ text # EmptyStr
                    /\ ~IsSpace(text[1])
                    /\ ~IsSpace(text[Len(text)])
    /\ pc = "done" =>
          \A k \in 1..Len(par_diff) :
             par_diff[k].kind = "ParagraphTextDiff" =>
                /\ par_diff[k].old = TextOf(paragraphs1, par_diff[k].index - 1)
                /\ par_diff[k].new = TextOf(paragraphs2, par_diff[k].index - 1)

\* a blank paragraph before a kept one: the record of the second paragraph
\* of the document is numbered 1
EmptyParagraphFilteringWitness ==
    /\ pc = "done"
    /\ Len(file1.paragraphs) = 2
    /\ file1.paragraphs[1].text = <<Space>>
    /\ Kept(file1) = {2}
    /\ file2 = EmptyFile
    /\ Len(par_diff) = 1 /\ par_diff[1].index = 1
    /\ par_diff[1].old = Strip(file1.paragraphs[2].text)

\* the document with every failing content-control scan replaced by a scan
\* that finds no content control
Heal(element) ==
    IF element.fails THEN [element EXCEPT !.fails = FALSE, !.sdts = <<>>]
    ELSE element

HealAll(elements) == [i \in 1..Len(elements) |-> Heal(elements[i])]

HealFile(file) ==
    [file EXCEPT
        !.paragraphs = HealAll(file.paragraphs),
        !.tables = [t \in 1..Len(file.tables) |->
                       [r \in 1..Len(file.tables[t]) |-> HealAll(file.tables[t][r])]]]

Failing(elements) == {i \in 1..Len(elements) : elements[i].fails}

FailureCount(file) ==
    Cardinality(Failing(file.paragraphs)) +
    Cardinality(Failing(Flatten(Flatten(file.tables))))

ErrorsShown == Len(SelectSeq(screen, LAMBDA w : w.widget = "error"))

\* C8: a content-control scan that raises is caught where it happens: the
\* paragraph or cell keeps its trimmed plain text, the rest of the document
\* is extracted, and the result is the one of the same document whose
\* failing scans find no content control; each failure is shown once.
FieldFailureAbsorbed ==
    /\ Paragraphs1Extracted =>
          /\ paragraphs1 = extract_docx_paragraphs_and_comments(HealFile(file1))
          /\ \A i \in Failing(file1.paragraphs) :
                LET plain == file1.paragraphs[i].text
                IN  IF AllSpaces(plain) THEN i \notin Kept(file1)
                    ELSE /\ i \in Kept(file1)
                         /\ paragraphs1[Rank(Kept(file1), i)][1] = Strip(plain)
    /\ Tables1Extracted =>
          /\ tables1 = extract_docx_tables(HealFile(file1))
          /\ Len(tables1) = Len(file1.tables)
          /\ \A t \in 1..Len(tables1) :
                /\ Len(tables1[t]) = Len(file1.tables[t])
                /\ \A r \in 1..Len(tables1[t]) :
                      /\ Len(tables1[t][r]) = Len(file1.tables[t][r])
                      /\ \A c \in Failing(file1.tables[t][r]) :
                            tables1[t][r][c] = Strip(file1.tables[t][r][c].text)
    /\ AllExtracted => ErrorsShown = FailureCount(file1) + FailureCount(file2)

\* a cell with text and a content control whose scan raises, and a cell
\* after it
FieldFailureAbsorbedWitness ==
    /\ pc = "done"
    /\ \E t \in 1..Len(file1.tables) : \E r \in 1..Len(file1.tables[t]) :
          LET cells == file1.tables[t][r]
          IN  /\ Len(cells) = 2
              /\ cells[1].fails /\ ~AllSpaces(cells[1].text)
              /\ tables1[t][r][1] # EmptyStr

Keys(file) ==
    IF file.comments.status = "ok"
    THEN {file.comments.entries[k].id : k \in 1..Len(file.comments.entries)}
    ELSE {}

\* the text under identifier id: Python's dict keeps the last assignment
Lookup(file, id) ==
    LET entries == file.comments.entries
        last == CHOOSE k \in 1..Len(entries) :
                    /\ entries[k].id = id
                    /\ \A j \in (k + 1)..Len(entries) : entries[j].id # id
    IN  Strip(entries[last].itertext)

Resolved(file, marks) == {m \in 1..Len(marks) : marks[m] \in Keys(file)}

WarningsShown == Len(SelectSeq(screen, LAMBDA w : w.widget = "warning"))

\* C9: the annotation list of a kept paragraph is the comment texts of its
\* comment-range-start marks whose identifier is a key of the comment map, in
\* document order; other marks add nothing and a paragraph without a known
\* mark keeps an empty list.  When the comment part is absent or does not
\* parse, the map is empty, nothing is raised, every kept paragraph has an
\* empty list and the texts are what they are with a readable comment part.
AnnotationResolution ==
    Paragraphs1Extracted =>
        /\ Len(paragraphs1) = Cardinality(Kept(file1))
        /\ \A i \in Kept(file1) :
              LET marks == file1.paragraphs[i].marks
                  ann   == paragraphs1[Rank(Kept(file1), i)][2]
              IN  /\ Len(ann) = Cardinality(Resolved(file1, marks))
                  /\ \A m \in Resolved(file1, marks) :
                        ann[Rank(Resolved(file1, marks), m)] = Lookup(file1, marks[m])
        /\ file1.comments.status # "ok" =>
              /\ DOMAIN extract_comments_from_docx(file1) = {}
              /\ \A j \in 1..Len(paragraphs1) : paragraphs1[j][2] = <<>>
              /\ \A i \in Kept(file1) :
                    paragraphs1[Rank(Kept(file1), i)][1]
                        = get_full_paragraph_text(file1.paragraphs[i])
              /\ WarningsShown >= 1

\* a comment part that does not parse although it holds the comment a
\* paragraph's mark names
AnnotationResolutionWitness ==
    /\ Paragraphs1Extracted
    /\ file1.comments.status = "malformed"
    /\ Len(file1.paragraphs) = 1
    /\ Len(file1.paragraphs[1].marks) = 1
    /\ \E k \in 1..Len(file1.comments.entries) :
          file1.comments.entries[k].id = file1.paragraphs[1].marks[1]
    /\ paragraphs1 = <<<<Strip(file1.paragraphs[1].text), <<>>>>>>

====
